---- MODULE Spec2Model ----
(***************************************************************************)
(* Model of tusimple/visual_tusimple.py: class VisualTusimple, which loads *)
(* a TuSimple record (JSON), loads the image it references, draws one      *)
(* filled circle per annotated lane point and writes the image.            *)
(*                                                                         *)
(* Four specifications share the state:                                    *)
(*   Spec        the script as written (lines 93-97): construct, then      *)
(*               visualize.  __init__ passes json_path to _load_json,      *)
(*               which declares no such parameter.                         *)
(*   SpecMethods the four methods _load_json, _load_image, draw_lanes and  *)
(*               save_image, each invoked as it is declared, in the order  *)
(*               __init__ and visualize invoke them, on inputs drawn from  *)
(*               bounded sets.                                             *)
(*   SpecDraw    draw_lanes alone, on records and palettes drawn from      *)
(*               larger sets.                                              *)
(*   SpecEnsure  ensure_file_exists called repeatedly on a file system.    *)
(***************************************************************************)
EXTENDS Integers, Sequences, FiniteSets, TLC

VARIABLES pc, json_path, line_colors, data, image, circles, raised,
          jsonFile, imgFile, fs, fs0, output_path, steps, written, lastCall

vars == <<pc, json_path, line_colors, data, image, circles, raised,
          jsonFile, imgFile, fs, fs0, output_path, steps, written, lastCall>>

(***************************************************************************)
(* Bounds of the model.                                                    *)
(***************************************************************************)
MaxLanes == 3
MaxLen == 2
MaxPalette == 2
MaxCalls == 2
MaxArgs == 2
MaxFileLanes == 1
MaxFileLen == 1

(***************************************************************************)
(* Program constants.                                                      *)
(***************************************************************************)
Sentinel == -2
Radius == 3
DefaultColors == << <<255, 0, 0>>, <<0, 255, 0>>, <<0, 0, 255>> >>
\* _load_json is declared with self only; __init__ calls it with self and
\* json_path.
LoadJsonDeclared == 1
LoadJsonPassed == 2

Min(a, b) == IF a < b THEN a ELSE b

(***************************************************************************)
(* Input domains.                                                          *)
(***************************************************************************)
XValues == {Sentinel, 10}
HSample(k) == 100 * k
CustomColor(k) == <<10 * k, 255, 255>>

SeqsOfLen(S, n) == [1..n -> S]
\* Lists of at most nl lanes, the lanes of one list having one length <= n.
LanesUpTo(nl, n) ==
    UNION {UNION {SeqsOfLen(SeqsOfLen(XValues, len), k) : k \in 0..nl} : len \in 0..n}
HSamplesUpTo(n) == {[k \in 1..len |-> HSample(k)] : len \in 0..n}
PalettesUpTo(n) == {[k \in 1..len |-> CustomColor(k)] : len \in 0..n}

FieldNames == {"raw_file", "lanes", "h_samples"}
NoData == [kind |-> "unset", keys |-> {}, lanes |-> <<>>, h_samples |-> <<>>]
JsonList == [kind |-> "list", keys |-> {}, lanes |-> <<>>, h_samples |-> <<>>]
\* A JSON object: the keys it has, and the values of lanes and h_samples.
DictsOver(lanesSet, hSet) ==
    {[kind |-> "dict", keys |-> ks,
      lanes |-> IF "lanes" \in ks THEN l ELSE <<>>,
      h_samples |-> IF "h_samples" \in ks THEN h ELSE <<>>] :
        ks \in SUBSET FieldNames, l \in lanesSet, h \in hSet}

PipelineDicts == DictsOver(LanesUpTo(MaxFileLanes, MaxFileLen), HSamplesUpTo(MaxFileLen))
DrawDicts == DictsOver(LanesUpTo(MaxLanes, MaxLen), HSamplesUpTo(MaxLen))

JsonFiles == {[state |-> "missing", value |-> NoData],
              [state |-> "garbage", value |-> NoData],
              [state |-> "json", value |-> JsonList]}
             \cup {[state |-> "json", value |-> d] : d \in PipelineDicts}
JsonPaths == {"", "rec.json"}
ImgFiles == {"missing", "undecodable", "ok"}

(***************************************************************************)
(* The file system: a chain of three paths, out, out/sub, out/sub/v.png.   *)
(***************************************************************************)
PathChain == <<"out", "sub", "v.png">>
Paths == {SubSeq(PathChain, 1, n) : n \in 1..Len(PathChain)}
Kinds == {"none", "file", "dir", "rodir"}
Parent(p) == SubSeq(p, 1, Len(p) - 1)
KindOf(f, p) == IF p = <<>> THEN "dir" ELSE f[p]
IsDir(f, p) == KindOf(f, p) \in {"dir", "rodir"}
\* os.path.exists
Exists(f, p) == KindOf(f, p) # "none"
FsStates == {f \in [Paths -> Kinds] :
                \A p \in Paths : f[p] # "none" => IsDir(f, Parent(p))}
HasImageExt(p) == p # <<>> /\ p[Len(p)] = "v.png"

(***************************************************************************)
(* Library calls the methods make.                                         *)
(***************************************************************************)
\* os.mkdir(p)
Mkdir(f, p) ==
    IF ~Exists(f, Parent(p)) THEN [fs |-> f, err |-> "FileNotFoundError"]
    ELSE IF ~IsDir(f, Parent(p)) THEN [fs |-> f, err |-> "NotADirectoryError"]
    ELSE IF Exists(f, p) THEN [fs |-> f, err |-> "FileExistsError"]
    ELSE IF KindOf(f, Parent(p)) = "rodir" THEN [fs |-> f, err |-> "PermissionError"]
    ELSE [fs |-> [f EXCEPT ![p] = "dir"], err |-> "none"]

\* os.makedirs(p, exist_ok=ok): the missing ancestors first, then p itself.
RECURSIVE Makedirs(_, _, _)
Makedirs(f, p, ok) ==
    LET head == Parent(p)
        r1 == IF head # <<>> /\ ~Exists(f, head)
              THEN Makedirs(f, head, ok)
              ELSE [fs |-> f, err |-> "none"]
    IN  IF r1.err \notin {"none", "FileExistsError"} THEN r1
        ELSE LET r2 == Mkdir(r1.fs, p)
             IN  IF r2.err = "none" THEN r2
                 ELSE IF ~ok \/ ~IsDir(r1.fs, p) THEN r2
                 ELSE [fs |-> r1.fs, err |-> "none"]

\* cv2.imread(path): None when the file is missing or cannot be decoded.
Imread(file) == IF file = "ok" THEN "ndarray" ELSE "None"

\* cv2.imwrite(p, img): raises on an empty image or an unknown extension,
\* returns False when the file cannot be opened for writing.
Imwrite(f, p, img) ==
    IF img # "ndarray" THEN [fs |-> f, err |-> "cv2.error", ret |-> FALSE]
    ELSE IF ~HasImageExt(p) THEN [fs |-> f, err |-> "cv2.error", ret |-> FALSE]
    ELSE IF KindOf(f, p) = "file" THEN [fs |-> f, err |-> "none", ret |-> TRUE]
    ELSE IF KindOf(f, p) = "none" /\ KindOf(f, Parent(p)) = "dir"
         THEN [fs |-> [f EXCEPT ![p] = "file"], err |-> "none", ret |-> TRUE]
    ELSE [fs |-> f, err |-> "none", ret |-> FALSE]

\* d[key] on a parsed JSON value.
Subscript(d, key) ==
    IF d.kind # "dict" THEN "TypeError"
    ELSE IF key \in d.keys THEN "none" ELSE "KeyError"

\* Calling a method with `passed` positional arguments (self included) when
\* it declares `declared` parameters.
CallArity(declared, passed) == IF passed = declared THEN "none" ELSE "TypeError"

(***************************************************************************)
(* Pure parts of the methods.                                              *)
(***************************************************************************)
PaletteArgs(n) == {[given |-> FALSE, colors |-> <<>>]}
                  \cup {[given |-> TRUE, colors |-> c] : c \in PalettesUpTo(n)}
\* line 25
LineColors(arg) == IF arg.given THEN arg.colors ELSE DefaultColors

\* A palette that does not cycle: lanes past its end keep the last color.
LaneColorClamped(colors, i) == colors[Min(i, Len(colors) - 1) + 1]
\* line 67; i counts from 0 as enumerate does
LaneColor(colors, i) == colors[(i % Len(colors)) + 1]

\* zip(lane, h_samples)
Zip(lane, h) == [k \in 1..Min(Len(lane), Len(h)) |-> <<lane[k], h[k]>>]
NotSentinel(pt) == pt[1] # Sentinel
IsCoordinate(x) == x # Sentinel
\* Sentinels removed before the pairing: later x-values move up a height.
LanePointsShifted(lane, h) == Zip(SelectSeq(lane, IsCoordinate), h)
\* The filter forgotten.
LanePointsKeepAll(lane, h) == Zip(lane, h)
\* line 68
LanePoints(lane, h) == SelectSeq(Zip(lane, h), NotSentinel)

\* lines 66-70, from lane i on; acc holds the circles drawn so far.
RECURSIVE DrawLoop(_, _, _, _, _, _)
DrawLoop(lanes, h, colors, img, i, acc) ==
    IF i >= Len(lanes) THEN [circles |-> acc, err |-> "none"]
    ELSE IF Len(colors) = 0 THEN [circles |-> acc, err |-> "ZeroDivisionError"]
    ELSE LET color == LaneColor(colors, i)
             pts == LanePoints(lanes[i + 1], h)
             drawn == [k \in 1..Len(pts) |->
                         [lane |-> i, point |-> pts[k], color |-> color,
                          radius |-> Radius]]
         IN  IF pts # <<>> /\ img # "ndarray"
             THEN [circles |-> acc, err |-> "cv2.error"]
             ELSE DrawLoop(lanes, h, colors, img, i + 1, acc \o drawn)

\* Lookups that fall back to an empty list instead of raising.
DrawResultLenient(d, colors, img) ==
    DrawLoop(d.lanes, d.h_samples, colors, img, 0, <<>>)
\* draw_lanes, lines 64-70
DrawResult(d, colors, img) ==
    IF Subscript(d, "lanes") # "none"
    THEN [circles |-> <<>>, err |-> Subscript(d, "lanes")]
    ELSE IF Subscript(d, "h_samples") # "none"
    THEN [circles |-> <<>>, err |-> Subscript(d, "h_samples")]
    ELSE DrawLoop(d.lanes, d.h_samples, colors, img, 0, <<>>)

\* The existence test of line 57 left out.
EnsureOneUnguarded(f, p, ok) == Makedirs(f, p, ok)
\* ensure_file_exists for one path, lines 57-58
EnsureOne(f, p, ok) ==
    IF ~Exists(f, p) THEN Makedirs(f, p, ok) ELSE [fs |-> f, err |-> "none"]

\* ensure_file_exists(*args, exist_ok), lines 56-58
RECURSIVE EnsureAll(_, _, _, _)
EnsureAll(f, args, ok, k) ==
    IF k > Len(args) THEN [fs |-> f, err |-> "none"]
    ELSE LET r == EnsureOne(f, args[k], ok)
         IN  IF r.err # "none" THEN r ELSE EnsureAll(r.fs, args, ok, k + 1)

\* save_image, lines 79-80: the value imwrite returns is not looked at.
SaveResult(f, p, img) ==
    LET e == EnsureAll(f, <<p>>, TRUE, 1)
    IN  IF e.err # "none" THEN [fs |-> e.fs, err |-> e.err, ret |-> FALSE]
        ELSE Imwrite(e.fs, p, img)

\* _load_json, lines 36-37
LoadJsonResult(path, file) ==
    IF path = "" \/ file.state = "missing"
    THEN [value |-> NoData, err |-> "FileNotFoundError"]
    ELSE IF file.state = "garbage" THEN [value |-> NoData, err |-> "JSONDecodeError"]
    ELSE [value |-> file.value, err |-> "none"]

(***************************************************************************)
(* The order of the calls: __init__ (lines 26-27), visualize (89-90).      *)
(***************************************************************************)
InitOrder == <<"record_load", "image_load">>
\* visualize saving before it draws.
VisualizeOrderSwapped == <<"write", "overlay">>
VisualizeOrder == <<"overlay", "write">>
Pipeline == InitOrder \o VisualizeOrder
NextStep == IF Len(steps) < Len(Pipeline) THEN Pipeline[Len(steps) + 1] ELSE "end"
Completed(step) == LET s == Append(steps, step)
                   IN  /\ steps' = s
                       /\ pc' = IF Len(s) = Len(Pipeline) THEN "done" ELSE "run"
\* The last call of ensure_file_exists: its number, arguments and outcome, and
\* whether it repeated the arguments of a call that had returned normally.
NoCall == [n |-> 0, args |-> <<>>, err |-> "none", repeat |-> FALSE]

(***************************************************************************)
(* Actions.                                                                *)
(***************************************************************************)
Raise(err) == /\ pc' = "failed"
              /\ raised' = err
              /\ UNCHANGED steps

\* lines 96 and 24-25: the constructor is entered and stores its arguments.
Construct ==
    /\ pc = "main"
    /\ \E jp \in JsonPaths, arg \in PaletteArgs(MaxPalette) :
          /\ json_path' = jp
          /\ line_colors' = LineColors(arg)
    /\ pc' = "init26"
    /\ UNCHANGED <<data, image, circles, raised, jsonFile, imgFile, fs, fs0,
                   output_path, steps, written, lastCall>>

\* line 26: self._load_json(self.json_path)
CallLoadJson ==
    /\ pc = "init26"
    /\ LET err == CallArity(LoadJsonDeclared, LoadJsonPassed)
       IN  IF err # "none" THEN Raise(err)
           ELSE /\ pc' = "run"
                /\ UNCHANGED <<raised, steps>>
    /\ UNCHANGED <<json_path, line_colors, data, image, circles, jsonFile,
                   imgFile, fs, fs0, output_path, written, lastCall>>

\* _load_json, lines 29-37, and the assignment of line 26
LoadJson ==
    /\ pc = "run" /\ NextStep = "record_load"
    /\ LET r == LoadJsonResult(json_path, jsonFile)
       IN  IF r.err # "none"
           THEN Raise(r.err) /\ UNCHANGED data
           ELSE /\ data' = r.value
                /\ Completed("record_load")
                /\ UNCHANGED raised
    /\ UNCHANGED <<json_path, line_colors, image, circles, jsonFile, imgFile,
                   fs, fs0, output_path, written, lastCall>>

\* _load_image, lines 39-46, and the assignment of line 27
LoadImage ==
    /\ pc = "run" /\ NextStep = "image_load"
    /\ LET e == Subscript(data, "raw_file")
       IN  IF e # "none"
           THEN Raise(e) /\ UNCHANGED image
           ELSE /\ image' = Imread(imgFile)
                /\ Completed("image_load")
                /\ UNCHANGED raised
    /\ UNCHANGED <<json_path, line_colors, data, circles, jsonFile, imgFile,
                   fs, fs0, output_path, written, lastCall>>

\* draw_lanes, lines 60-70
DrawLanes ==
    /\ pc = "run" /\ NextStep = "overlay"
    /\ LET r == DrawResult(data, line_colors, image)
       IN  /\ circles' = circles \o r.circles
           /\ IF r.err # "none" THEN Raise(r.err)
              ELSE Completed("overlay") /\ UNCHANGED raised
    /\ UNCHANGED <<json_path, line_colors, data, image, jsonFile, imgFile,
                   fs, fs0, output_path, written, lastCall>>

\* save_image, lines 72-80
SaveImage ==
    /\ pc = "run" /\ NextStep = "write"
    /\ LET r == SaveResult(fs, output_path, image)
       IN  /\ fs' = r.fs
           /\ written' = IF r.err = "none" /\ r.ret
                         THEN Append(written, output_path) ELSE written
           /\ IF r.err # "none" THEN Raise(r.err)
              ELSE Completed("write") /\ UNCHANGED raised
    /\ UNCHANGED <<json_path, line_colors, data, image, circles, jsonFile,
                   imgFile, fs0, output_path, lastCall>>

\* ensure_file_exists(*args, exist_ok), lines 48-58, called by a client
PathArgs == UNION {[1..n -> Paths] : n \in 0..MaxArgs}
EnsureFileExists ==
    /\ pc = "ensure"
    /\ lastCall.n < MaxCalls
    /\ \E args \in PathArgs, ok \in BOOLEAN :
          LET r == EnsureAll(fs, args, ok, 1)
          IN  /\ fs' = r.fs
              /\ raised' = r.err
              /\ lastCall' = [n |-> lastCall.n + 1, args |-> args,
                              err |-> r.err,
                              repeat |-> /\ lastCall.n > 0
                                         /\ lastCall.err = "none"
                                         /\ lastCall.args = args]
    /\ UNCHANGED <<pc, json_path, line_colors, data, image, circles, jsonFile,
                   imgFile, fs0, output_path, steps, written>>

(***************************************************************************)
(* Specifications.                                                         *)
(***************************************************************************)
InitFiles ==
    /\ jsonFile \in JsonFiles
    /\ imgFile \in ImgFiles
    /\ fs \in FsStates
    /\ fs0 = fs
    /\ output_path \in Paths
InitBlank ==
    /\ data = NoData
    /\ image = "unset"
    /\ circles = <<>>
    /\ raised = "none"
    /\ steps = <<>>
    /\ written = <<>>
    /\ lastCall = NoCall

\* The script, lines 93-97.
Init ==
    /\ pc = "main"
    /\ json_path = "unset"
    /\ line_colors = <<>>
    /\ InitFiles
    /\ InitBlank
Next == Construct \/ CallLoadJson
Spec == Init /\ [][Next]_vars

\* The instance after lines 24-25, its methods invoked as declared.
InitMethods ==
    /\ pc = "run"
    /\ json_path \in JsonPaths
    /\ line_colors \in {LineColors(arg) : arg \in PaletteArgs(MaxPalette)}
    /\ InitFiles
    /\ InitBlank
NextMethods == LoadJson \/ LoadImage \/ DrawLanes \/ SaveImage
SpecMethods == InitMethods /\ [][NextMethods]_vars

\* draw_lanes on an instance holding any record, palette and image.
InitDraw ==
    /\ pc = "run"
    /\ json_path = "rec.json"
    /\ line_colors \in {LineColors(arg) : arg \in PaletteArgs(MaxPalette)}
    /\ data \in DrawDicts \cup {JsonList}
    /\ image \in {"ndarray", "None"}
    /\ circles = <<>>
    /\ raised = "none"
    /\ jsonFile = [state |-> "json", value |-> data]
    /\ imgFile = IF image = "ndarray" THEN "ok" ELSE "missing"
    /\ fs = [p \in Paths |-> "none"]
    /\ fs0 = fs
    /\ output_path = PathChain
    /\ steps = InitOrder
    /\ written = <<>>
    /\ lastCall = NoCall
NextDraw == DrawLanes
SpecDraw == InitDraw /\ [][NextDraw]_vars

\* ensure_file_exists called up to MaxCalls times on any file system.
InitEnsure ==
    /\ pc = "ensure"
    /\ json_path = "rec.json"
    /\ line_colors = DefaultColors
    /\ jsonFile = [state |-> "missing", value |-> NoData]
    /\ imgFile = "missing"
    /\ fs \in FsStates
    /\ fs0 = fs
    /\ output_path = PathChain
    /\ InitBlank
NextEnsure == EnsureFileExists
SpecEnsure == InitEnsure /\ [][NextEnsure]_vars

(***************************************************************************)
(* Properties.                                                             *)
(***************************************************************************)
Did(step) == \E k \in 1..Len(steps) : steps[k] = step
IsPrefix(s, t) == Len(s) <= Len(t) /\ s = SubSeq(t, 1, Len(s))
LaneIndexes == 0..(Len(data.lanes) - 1)
\* The circles drawn for lane i, as positions in the drawing order.
LaneCircles(i) == {k \in 1..Len(circles) : circles[k].lane = i}
PairedIndexes(lane, h) ==
    {k \in 1..Len(lane) : k <= Len(h) /\ lane[k] # Sentinel}
ValidRecord == \A i \in LaneIndexes : Len(data.lanes[i + 1]) = Len(data.h_samples)
RecordLacks(key) ==
    /\ jsonFile.state = "json"
    /\ jsonFile.value.kind = "dict"
    /\ key \notin jsonFile.value.keys
WellFormedFile ==
    /\ json_path # ""
    /\ jsonFile.state = "json"
    /\ jsonFile.value.kind = "dict"
    /\ FieldNames \subseteq jsonFile.value.keys

\* C1: once draw_lanes has returned, the points drawn for lane i are exactly
\* the pairs (lanes[i][k], h_samples[k]) over the indexes k both sequences
\* have and at which lanes[i][k] is not -2; nothing is drawn for any other
\* lane index.
C1_PointSet ==
    Did("overlay") =>
        /\ \A i \in LaneIndexes :
              {circles[k].point : k \in LaneCircles(i)}
                = {<<data.lanes[i + 1][k], data.h_samples[k]>> :
                      k \in PairedIndexes(data.lanes[i + 1], data.h_samples)}
        /\ \A k \in 1..Len(circles) : circles[k].lane \in LaneIndexes
\* A lane whose first entry is the sentinel and whose second is not: its
\* point is drawn at the second height.
C1_Witness ==
    /\ Did("overlay")
    /\ Len(data.h_samples) >= 2
    /\ \E i \in LaneIndexes :
          /\ Len(data.lanes[i + 1]) >= 2
          /\ data.lanes[i + 1][1] = Sentinel
          /\ data.lanes[i + 1][2] # Sentinel
          /\ \E k \in LaneCircles(i) :
                circles[k].point = <<data.lanes[i + 1][2], data.h_samples[2]>>

\* C2: for a record whose lanes all have the length of h_samples, once
\* draw_lanes has returned the number of circles drawn for a lane is the
\* number of its entries other than -2, and is at most len(h_samples); a
\* lane of -2 only has no circle.
C2_MarkerCount ==
    (Did("overlay") /\ ValidRecord) =>
        \A i \in LaneIndexes :
            /\ Cardinality(LaneCircles(i))
                 = Cardinality({k \in 1..Len(data.lanes[i + 1]) :
                                   data.lanes[i + 1][k] # Sentinel})
            /\ Cardinality(LaneCircles(i)) <= Len(data.h_samples)
\* A valid record with a lane of sentinels only and a lane with two points.
C2_Witness ==
    /\ Did("overlay")
    /\ ValidRecord
    /\ Len(data.h_samples) >= 2
    /\ \E i, j \in LaneIndexes :
          /\ \A k \in 1..Len(data.lanes[i + 1]) : data.lanes[i + 1][k] = Sentinel
          /\ LaneCircles(i) = {}
          /\ Cardinality(LaneCircles(j)) = 2

\* C3: with a palette of P >= 1 colors, every circle of lane i has color
\* palette[i mod P], so the circles of lanes i and i+P have the same color.
C3_ColorCycle ==
    (Did("overlay") /\ Len(line_colors) >= 1) =>
        /\ \A k \in 1..Len(circles) :
              circles[k].color
                = line_colors[(circles[k].lane % Len(line_colors)) + 1]
        /\ \A k1, k2 \in 1..Len(circles) :
              circles[k2].lane = circles[k1].lane + Len(line_colors)
                => circles[k2].color = circles[k1].color
\* More lanes than colors: circles of lanes i and i+P, and a lane between
\* them that lost a point to the sentinel.
C3_Witness ==
    /\ Did("overlay")
    /\ Len(line_colors) >= 1
    /\ Len(data.lanes) > Len(line_colors)
    /\ \E k1, k2 \in 1..Len(circles) :
          circles[k2].lane = circles[k1].lane + Len(line_colors)
    /\ \E i \in LaneIndexes :
          Cardinality(LaneCircles(i)) < Len(data.lanes[i + 1])

\* C4: the run fails in the record load only when the record file is not a
\* well-formed record (unreadable, unparsable or lacking a required field).
C4_LoaderReturnsRecord ==
    (pc = "failed" /\ ~Did("record_load")) => ~WellFormedFile

\* C5: when the parent directory of output_path did not exist and save_image
\* has returned, the parent is a directory and output_path is a regular
\* file that was written.
C5_WritesFileInParent ==
    (Did("write") /\ ~Exists(fs0, Parent(output_path))) =>
        /\ IsDir(fs, Parent(output_path))
        /\ KindOf(fs, output_path) = "file"
        /\ written = <<output_path>>

C7_AbortsBeforeRendering ==
    Did("image_load") => (imgFile = "ok" /\ image = "ndarray")

\* C8: a run that returns normally has written exactly one file, at
\* output_path; a run that failed reports an error and has written nothing.
C8_OneFileOrError ==
    /\ pc = "done" =>
          (written = <<output_path>> /\ KindOf(fs, output_path) = "file")
    /\ pc = "failed" => (raised # "none" /\ written = <<>>)

\* C9: a call of ensure_file_exists whose paths all exist changes nothing
\* and raises nothing; so does a call that repeats the arguments of a call
\* that returned normally.
C9_EnsureIdempotent ==
    [][lastCall'.n = lastCall.n + 1 =>
         LET quiet == fs' = fs /\ lastCall'.err = "none"
         IN  /\ (\A k \in 1..Len(lastCall'.args) : Exists(fs, lastCall'.args[k]))
                   => quiet
             /\ (lastCall.n > 0 /\ lastCall.err = "none"
                   /\ lastCall'.args = lastCall.args) => quiet]_vars
\* The second of two calls on the same missing path: the first created the
\* directory, the second left it there.
C9_Witness ==
    /\ lastCall.n = 2
    /\ lastCall.args # <<>>
    /\ lastCall.repeat
    /\ lastCall.err = "none"
    /\ \E k \in 1..Len(lastCall.args) :
          ~Exists(fs0, lastCall.args[k]) /\ KindOf(fs, lastCall.args[k]) = "dir"

\* C10: the steps performed are always an initial part of record load,
\* image load, overlay, write; a run that has returned performed all four;
\* and the record, once loaded, is never changed.
C10_StepOrder ==
    /\ [](/\ IsPrefix(steps, <<"record_load", "image_load", "overlay", "write">>)
          /\ pc = "done" => Len(steps) = 4)
    /\ [][data # NoData => data' = data]_vars
\* A run that returned: four steps, the record still what the file held.
C10_Witness ==
    /\ pc = "done"
    /\ Len(steps) = 4
    /\ data = jsonFile.value
    /\ circles # <<>>

====
